---- MODULE Spec2Model ----
(***************************************************************************)
(* A model of fireflycons/terminator (main.go): the control loop that      *)
(* periodically scans a cluster for pods stuck in Terminating, clears      *)
(* their finalizers and force deletes them, and the signal handler that    *)
(* shuts the loop down.                                                    *)
(*                                                                         *)
(* Time is counted in whole ticks; durations (grace period, interval,      *)
(* startup delay, terminationGracePeriodSeconds) are tick counts.          *)
(* Strings that the code inspects character by character (pod names and    *)
(* name prefixes) are sequences of one-character strings.                  *)
(***************************************************************************)
EXTENDS Integers, Sequences, FiniteSets, TLC

(***************************************************************************)
(* Bounds of the model.                                                    *)
(***************************************************************************)
\* The clock runs from 0 to MaxTime.
MaxTime == 3
\* The scan counter saturates here (it is a history counter, not a guard).
MaxCycles == 2
\* Pod instances are numbered from 1; a name sees at most this many.
MaxUid == 2

(***************************************************************************)
(* Program constants.                                                      *)
(***************************************************************************)
\* A nil pod.ObjectMeta.DeletionTimestamp.
NoTime == -1
\* sigs := make(chan os.Signal, 1)
SigsCap == 1
\* done := make(chan bool, 1)
DoneCap == 1
\* The process exit status when main returns.
ExitOK == 0

(***************************************************************************)
(* The cluster fixture: the namespaces the API lists, in listing order,    *)
(* and the pod identities (namespace, name) that may exist in them.        *)
(***************************************************************************)
NsNames == <<"a", "b">>

Foo1 == <<"f", "o", "o", "-", "1">>
Bar1 == <<"b", "a", "r", "-", "1">>
Foo2 == <<"f", "o", "o", "-", "2">>

PodIds == << [ns |-> "a", name |-> Foo1],
             [ns |-> "a", name |-> Bar1],
             [ns |-> "b", name |-> Foo2] >>

Slots == DOMAIN PodIds

\* The slot of the pod with this namespace and name (0: no such identity).
SlotOf(ns, name) ==
    IF \E i \in Slots : PodIds[i].ns = ns /\ PodIds[i].name = name
    THEN CHOOSE i \in Slots : PodIds[i].ns = ns /\ PodIds[i].name = name
    ELSE 0

(***************************************************************************)
(* Pure helpers.                                                           *)
(***************************************************************************)
\* slices.Contains
Contains(s, x) == \E i \in DOMAIN s : s[i] = x

\* unicode.ToLower on the letters the fixture's prefixes use.
ToLower(c) == IF c = "B" THEN "b" ELSE IF c = "F" THEN "f" ELSE c

\* Mutant of HasPrefix: the characters are compared ignoring case.
HasPrefixFold(s, prefix) ==
    /\ Len(prefix) <= Len(s)
    /\ \A i \in 1..Len(prefix) : ToLower(s[i]) = ToLower(prefix[i])

\* strings.HasPrefix, compared character by character (case-sensitive).
HasPrefix(s, prefix) ==
    /\ Len(prefix) <= Len(s)
    /\ \A i \in 1..Len(prefix) : s[i] = prefix[i]

\* The subsequence of s whose elements satisfy Test, in order.
RECURSIVE SelectSlots(_, _, _)
SelectSlots(i, n, keep) ==
    IF i > n THEN <<>>
    ELSE (IF i \in keep THEN <<i>> ELSE <<>>) \o SelectSlots(i + 1, n, keep)

Min(a, b) == IF a < b THEN a ELSE b

(***************************************************************************)
(* State.                                                                  *)
(***************************************************************************)
VARIABLES
    cli,        \* the parsed command line (CLI struct), fixed for the run
    now,        \* the wall clock
    cluster,    \* the API server's pods: slot -> [uid, dt, tgps, fin, owners]
    sigs,       \* channel sigs (capacity 1): OS signals to signalHandler
    done,       \* channel done (capacity 1): signalHandler to controlLoop
    handlerPc,  \* signalHandler: "none", "recv", "send", "exit"
    pc,         \* controlLoop / main: the program counter
    wake,       \* when the timer of the current sleep fires
    nsList,     \* namespaces.Items of the current scan
    nsIdx,      \* index of the namespace loop
    podList,    \* pods.Items (names) of the current namespace
    podIdx,     \* index of the pod loop
    pod,        \* processPod's fetched snapshot
    nowLocal,   \* processPod's now := time.Now()
    calls,      \* API calls of the current step of the scan (a listing, or
                \* one processPod invocation), in order
    logs,       \* log entries of the current step of the scan, in order
    cycle,      \* scans started so far (saturating at MaxCycles)
    exitVia,    \* which return of controlLoop was taken ("none" before)
    exitCode    \* the process exit status (-1 while running)

vars == << cli, now, cluster, sigs, done, handlerPc, pc, wake, nsList,
           nsIdx, podList, podIdx, pod, nowLocal, calls, logs, cycle, exitVia,
           exitCode >>

loopVars == << nsList, nsIdx, podList, podIdx, pod, nowLocal >>
sigVars == << sigs, done, handlerPc >>

\* No snapshot held.
NoPod == [ns |-> "", name |-> <<>>, uid |-> 0, dt |-> NoTime, tgps |-> 0,
          fin |-> <<>>, owners |-> <<>>]

\* An absent pod slot.
Absent == [uid |-> 0, dt |-> NoTime, tgps |-> 0, fin |-> <<>>, owners |-> <<>>]

(***************************************************************************)
(* Inputs: command lines and initial clusters.                             *)
(***************************************************************************)
\* Every pod-handling option, scanning at once and sleeping one tick; the
\* startup delay and interval at 0 and 1; the namespace and prefix filters.
CliChoices ==
    [ DryRun : BOOLEAN, NoRemoveFinalizers : BOOLEAN, GracePeriod : {0, 1},
      StartupDelay : {0}, Interval : {1}, Namespaces : {<<>>}, Pods : {<<>>} ]
    \cup
    [ DryRun : {FALSE}, NoRemoveFinalizers : {FALSE}, GracePeriod : {0},
      StartupDelay : {0, 1}, Interval : {0, 1}, Namespaces : {<<>>}, Pods : {<<>>} ]
    \cup
    [ DryRun : {FALSE}, NoRemoveFinalizers : {FALSE}, GracePeriod : {0},
      StartupDelay : {0}, Interval : {1},
      Namespaces : {<<>>, <<"a">>},
      Pods : {<<>>, << <<"B", "a", "r">>, <<"f", "o", "o", "-">> >>} ]

\* The shapes a pod has when the run starts: running; under deletion since
\* time 0 with and without a finalizer; a static pod under deletion.
Running == [uid |-> 1, dt |-> NoTime, tgps |-> 1, fin |-> <<>>,
            owners |-> <<"ReplicaSet">>]
Stuck == [uid |-> 1, dt |-> 0, tgps |-> 0, fin |-> <<"kubernetes">>,
          owners |-> <<"ReplicaSet">>]
StuckNoFin == [uid |-> 1, dt |-> 0, tgps |-> 1, fin |-> <<>>, owners |-> <<>>]
Static == [uid |-> 1, dt |-> 0, tgps |-> 0, fin |-> <<"kubernetes">>,
           owners |-> <<"ReplicaSet", "Node">>]
\* A pod of a StatefulSet, under deletion since time 0 with a finalizer.
StuckSts == [uid |-> 1, dt |-> 0, tgps |-> 0, fin |-> <<"kubernetes">>,
             owners |-> <<"StatefulSet">>]

\* Initial clusters: every shape but the last, and absence, occurs in every
\* slot; the StatefulSet's pod is on its own.
ClusterChoices ==
    { <<StuckSts, Absent, Absent>>,
      <<Stuck, Running, StuckNoFin>>,
      <<Static, Stuck, Absent>>,
      <<StuckNoFin, Static, Stuck>>,
      <<Running, Absent, Static>>,
      <<Absent, StuckNoFin, Running>> }

Init ==
    /\ cli \in CliChoices
    /\ cluster \in ClusterChoices
    /\ now = 0
    /\ sigs = <<>> /\ done = <<>> /\ handlerPc = "none"
    /\ pc = "start"
    /\ wake = 0
    /\ nsList = <<>> /\ nsIdx = 0 /\ podList = <<>> /\ podIdx = 0
    /\ pod = NoPod /\ nowLocal = 0
    /\ calls = <<>> /\ logs = <<>>
    /\ cycle = 0
    /\ exitVia = "none"
    /\ exitCode = -1

(***************************************************************************)
(* Records of what the program does to the outside world.                  *)
(***************************************************************************)
\* One API call: the operation, its target, its argument (the finalizer
\* list an update submits, the grace period a delete carries), its result
\* and, for a successful get, the pod it returned.
Call(op, ns, name, arg, res, ret) ==
    [op |-> op, ns |-> ns, name |-> name, arg |-> arg, res |-> res, ret |-> ret]

\* One log entry: level.X(logger).Log(...), tagged with the pod it is about.
Log(lvl, msg, ns, name) == [level |-> lvl, msg |-> msg, ns |-> ns, name |-> name]

(***************************************************************************)
(* The pure parts of main.go.                                              *)
(***************************************************************************)
\* Mutant of signalRaised: the receive case never reports the signal.
signalRaisedNever(raised) == FALSE

\* signalRaised: the select's receive case is ready iff done holds a value
\* (done is never closed, so ok is always true).
signalRaised(raised) == Len(raised) > 0

\* Mutant of isStaticPod: only the first owner reference is inspected.
isStaticPodFirstOwner(p) == Len(p.owners) > 0 /\ p.owners[1] = "Node"

\* isStaticPod: some owner reference has Kind == "Node".
isStaticPod(p) == \E i \in DOMAIN p.owners : p.owners[i] = "Node"

\* Mutant of syntheticGracePeriod: cli.GracePeriod is not added.
syntheticGracePeriodPodOnly(p) == p.tgps

\* syntheticGracePeriod: the pod's grace period plus cli.GracePeriod.
syntheticGracePeriod(p) == p.tgps + cli.GracePeriod

\* deleteBy: now.Add(-syntheticGracePeriod).
deleteBy(t, p) == t - syntheticGracePeriod(p)

\* Mutant of Before: the boundary instant counts as earlier.
BeforeOrEqual(t, u) == t <= u

\* metav1.Time.Before: strictly earlier.
Before(t, u) == t < u

\* Mutant of Evaluate: the dry-run return is missing.
EvaluateNoDryRun(p, t) ==
    IF p.dt = NoTime THEN "notTerminating"
    ELSE IF isStaticPod(p) THEN "static"
    ELSE IF ~Before(p.dt, deleteBy(t, p)) THEN "within"
    ELSE "proceed"

\* processPod after a successful Get, up to the dry-run check: which return
\* is taken ("proceed": none, removeFinalizers is called).
Evaluate(p, t) ==
    IF p.dt = NoTime THEN "notTerminating"
    ELSE IF isStaticPod(p) THEN "static"
    ELSE IF ~Before(p.dt, deleteBy(t, p)) THEN "within"
    ELSE IF cli.DryRun THEN "dryRun"
    ELSE "proceed"

\* Mutant of FinalizerStep: the empty-list return is missing.
FinalizerStepAlwaysUpdate(p) ==
    IF cli.NoRemoveFinalizers /\ Len(p.fin) > 0 THEN "blocked" ELSE "update"

\* Mutant of FinalizerStep: the policy check precedes the empty-list check.
FinalizerStepPolicyFirst(p) ==
    IF cli.NoRemoveFinalizers THEN "blocked"
    ELSE IF Len(p.fin) = 0 THEN "none"
    ELSE "update"

\* Mutant of FinalizerStep: the finalizers are never cleared.
FinalizerStepSkipUpdate(p) ==
    IF Len(p.fin) = 0 THEN "none"
    ELSE IF cli.NoRemoveFinalizers THEN "blocked"
    ELSE "none"

\* Mutant of FinalizerStep: cli.NoRemoveFinalizers is not consulted.
FinalizerStepNoPolicy(p) == IF Len(p.fin) = 0 THEN "none" ELSE "update"

\* removeFinalizers before its API call: "none" returns true with no call,
\* "blocked" returns false with no call, "update" goes on to Update.
FinalizerStep(p) ==
    IF Len(p.fin) = 0 THEN "none"
    ELSE IF cli.NoRemoveFinalizers THEN "blocked"
    ELSE "update"

\* Mutant of SkipNamespace: the namespace filter is not applied.
SkipNamespaceNever(ns) == FALSE

\* The namespace loop's filter: skip ns when a list was given without it.
SkipNamespace(ns) == Len(cli.Namespaces) > 0 /\ ~Contains(cli.Namespaces, ns)

\* The pod loop's filter: process the pod iff no prefixes, or one matches.
ProcessName(name) ==
    Len(cli.Pods) > 0 => \E i \in DOMAIN cli.Pods : HasPrefix(name, cli.Pods[i])

(***************************************************************************)
(* The API server, as the program sees it.                                 *)
(***************************************************************************)
Exists(i) == i \in Slots /\ cluster[i].uid # 0

\* Pods(namespace).List: the names of the pods in the namespace.
PodsIn(ns) ==
    LET keep == {i \in Slots : PodIds[i].ns = ns /\ Exists(i)}
        idx == SelectSlots(1, Len(PodIds), keep)
    IN  [k \in DOMAIN idx |-> PodIds[idx[k]].name]

ListResults == {"ok", "error"}
GetResults(i) == IF Exists(i) THEN {"ok", "error"} ELSE {"notfound", "error"}
UpdateResults(i, uid) ==
    IF ~Exists(i) THEN {"notfound", "error"}
    ELSE IF cluster[i].uid # uid THEN {"conflict", "error"}
    ELSE {"ok", "conflict", "error"}
DeleteResults(i) == IF Exists(i) THEN {"ok", "error"} ELSE {"notfound", "error"}

Snapshot(i) ==
    [ns |-> PodIds[i].ns, name |-> PodIds[i].name, uid |-> cluster[i].uid,
     dt |-> cluster[i].dt, tgps |-> cluster[i].tgps, fin |-> cluster[i].fin,
     owners |-> cluster[i].owners]

(***************************************************************************)
(* The signal path: the OS, signal.Notify and signalHandler.               *)
(***************************************************************************)
\* The OS delivers SIGINT or SIGTERM. signal.Notify sends without blocking:
\* the signal is dropped when sigs is full.
OsSignal ==
    /\ pc \notin {"start", "exited"}
    /\ sigs' = IF Len(sigs) < SigsCap THEN Append(sigs, "SIGTERM") ELSE sigs
    /\ UNCHANGED << cli, now, cluster, done, handlerPc, pc, wake, loopVars,
                    calls, logs, cycle, exitVia, exitCode >>

\* signalHandler: sig := <-sigs, then the "Signal received" log entry.
HandlerRecv ==
    /\ pc # "exited"
    /\ handlerPc = "recv"
    /\ Len(sigs) > 0
    /\ sigs' = Tail(sigs)
    /\ handlerPc' = "send"
    /\ UNCHANGED << cli, now, cluster, done, pc, wake, loopVars,
                    calls, logs, cycle, exitVia, exitCode >>

\* Mutant of HandlerAfterSend: the handler loops back for the next signal.
HandlerAfterSendLoop == "recv"

\* Where signalHandler goes after done <- true: the function ends.
HandlerAfterSend == "exit"

\* signalHandler: done <- true, then the goroutine ends.
HandlerSend ==
    /\ pc # "exited"
    /\ handlerPc = "send"
    /\ Len(done) < DoneCap
    /\ done' = Append(done, TRUE)
    /\ handlerPc' = HandlerAfterSend
    /\ UNCHANGED << cli, now, cluster, sigs, pc, wake, loopVars,
                    calls, logs, cycle, exitVia, exitCode >>

(***************************************************************************)
(* sleep and the clock.                                                    *)
(***************************************************************************)
Sleeping == pc \in {"startupDelay", "sleep"}

\* sleep's select: the cases that are ready.
DoneReady == signalRaised(done)

\* Mutant of TimerReady: the timer fires as soon as it is started.
TimerReadyAtOnce == TRUE

TimerReady == now >= wake

\* Mutant of SleepOnDone: the done case reports "continue".
SleepOnDoneContinue == TRUE

\* What sleep returns when its select takes the done case.
SleepOnDone == FALSE

\* Mutant of SleepOnTimer: the timer case reports "stop".
SleepOnTimerStop == FALSE

\* What sleep returns when its select takes the timer case.
SleepOnTimer == TRUE

\* Mutant of AfterSleep: sleep's result is ignored.
AfterSleepIgnoresResult(r) ==
    /\ pc' = "scan"
    /\ exitVia' = exitVia

\* controlLoop after a sleep returned r: on to the scan, or return.
AfterSleep(r) ==
    /\ pc' = IF r THEN "scan" ELSE "returned"
    /\ exitVia' = IF r THEN exitVia ELSE pc

\* sleep: case <-done.
SleepDone ==
    /\ Sleeping
    /\ DoneReady
    /\ done' = Tail(done)
    /\ AfterSleep(SleepOnDone)
    /\ UNCHANGED << cli, now, cluster, sigs, handlerPc, wake, loopVars,
                    calls, logs, cycle, exitCode >>

\* sleep: case <-time.After(duration).
SleepTimer ==
    /\ Sleeping
    /\ TimerReady
    /\ AfterSleep(SleepOnTimer)
    /\ UNCHANGED << cli, now, cluster, sigVars, wake, loopVars,
                    calls, logs, cycle, exitCode >>

\* A select with a ready case does not block: no time passes in it.
SelectBlocked == ~DoneReady /\ ~TimerReady

\* The clock advances, except past a select that can take a case.
Tick ==
    /\ pc # "exited"
    /\ now < MaxTime
    /\ Sleeping => SelectBlocked
    /\ now' = now + 1
    /\ UNCHANGED << cli, cluster, sigVars, pc, wake, loopVars,
                    calls, logs, cycle, exitVia, exitCode >>

(***************************************************************************)
(* controlLoop, processNamespaces, processPod, removeFinalizers, deletePod *)
(***************************************************************************)
\* controlLoop up to its first wait: the channels, signal.Notify, the
\* handler goroutine, and the startup delay when one is configured.
ControlLoopStart ==
    /\ pc = "start"
    /\ handlerPc' = "recv"
    /\ IF cli.StartupDelay > 0
       THEN /\ logs' = Append(logs, Log("info", "Sleeping for startup delay", "", <<>>))
            /\ pc' = "startupDelay"
            /\ wake' = now + cli.StartupDelay
       ELSE /\ pc' = "scan"
            /\ UNCHANGED << logs, wake >>
    /\ UNCHANGED << cli, now, cluster, sigs, done, loopVars, calls,
                    cycle, exitVia, exitCode >>

\* Mutant of AfterScan: the next scan starts without the sleep.
AfterScanRescan(r) ==
    /\ pc' = IF r THEN "scan" ELSE "returned"
    /\ wake' = wake
    /\ exitVia' = IF r THEN exitVia ELSE "scan"

\* Mutant of AfterScan: processNamespaces' result is ignored.
AfterScanAlwaysSleep(r) ==
    /\ pc' = "sleep"
    /\ wake' = now + cli.Interval
    /\ exitVia' = exitVia

\* controlLoop after processNamespaces returned r: sleep(cli.Interval), whose
\* timer starts now, or return.
AfterScan(r) ==
    /\ pc' = IF r THEN "sleep" ELSE "returned"
    /\ wake' = IF r THEN now + cli.Interval ELSE wake
    /\ exitVia' = IF r THEN exitVia ELSE "scan"

\* Mutant of OnListNamespacesError: a failed listing ends the loop.
OnListNamespacesErrorStop == FALSE

\* What processNamespaces returns when Namespaces().List fails.
OnListNamespacesError == TRUE
\* What processNamespaces returns after the last namespace.
OnScanComplete == TRUE
\* Mutant of OnSignalRaised: the scan is abandoned but the loop goes on.
OnSignalRaisedContinue == TRUE

\* What processNamespaces returns when signalRaised(done) is true.
OnSignalRaised == FALSE

\* The top of the main loop and processNamespaces' Namespaces().List.
ListNamespaces ==
    /\ pc = "scan"
    /\ cycle' = Min(cycle + 1, MaxCycles)
    /\ \E res \in ListResults :
         /\ calls' = << Call("listNamespaces", "", <<>>, <<>>, res, NoPod) >>
         /\ IF res = "ok"
            THEN /\ logs' = << Log("info", "Checking for terminating pods", "", <<>>) >>
                 /\ nsList' = NsNames
                 /\ nsIdx' = 1
                 /\ pc' = "nsLoop"
                 /\ UNCHANGED << wake, exitVia >>
            ELSE /\ logs' = << Log("info", "Checking for terminating pods", "", <<>>),
                               Log("error", "Cannot list namespaces", "", <<>>) >>
                 /\ AfterScan(OnListNamespacesError)
                 /\ UNCHANGED << nsList, nsIdx >>
    /\ UNCHANGED << cli, now, cluster, sigVars, podList, podIdx, pod, nowLocal,
                    exitCode >>

\* Mutant of OnListPodsError: a failed listing ends the scan.
OnListPodsErrorReturn == "return"

\* What the namespace loop does when Pods(namespace).List fails.
OnListPodsError == "continue"

\* One turn of the namespace loop: the filter and Pods(namespace).List.
ListPods ==
    /\ pc = "nsLoop"
    /\ IF nsIdx > Len(nsList)
       THEN /\ AfterScan(OnScanComplete)
            /\ UNCHANGED << nsIdx, podList, podIdx, calls, logs >>
       ELSE IF SkipNamespace(nsList[nsIdx])
       THEN /\ nsIdx' = nsIdx + 1
            /\ UNCHANGED << pc, wake, exitVia, podList, podIdx, calls, logs >>
       ELSE \E res \in ListResults :
            /\ calls' = << Call("listPods", nsList[nsIdx], <<>>, <<>>, res, NoPod) >>
            /\ IF res = "ok"
               THEN /\ podList' = PodsIn(nsList[nsIdx])
                    /\ podIdx' = 1
                    /\ pc' = "podLoop"
                    /\ logs' = << >>
                    /\ UNCHANGED << nsIdx, wake, exitVia >>
               ELSE /\ logs' = << Log("error", "Cannot list pods", nsList[nsIdx], <<>>) >>
                    /\ IF OnListPodsError = "continue"
                       THEN /\ nsIdx' = nsIdx + 1
                            /\ UNCHANGED << pc, wake, exitVia >>
                       ELSE /\ AfterScan(OnScanComplete)
                            /\ UNCHANGED nsIdx
                    /\ UNCHANGED << podList, podIdx >>
    /\ UNCHANGED << cli, now, cluster, sigVars, nsList, pod, nowLocal, cycle,
                    exitCode >>

\* One turn of the pod loop up to the call of processPod: the signal
\* check, then the name-prefix filter.
PodLoop ==
    /\ pc = "podLoop"
    /\ IF podIdx > Len(podList)
       THEN /\ nsIdx' = nsIdx + 1
            /\ pc' = "nsLoop"
            /\ UNCHANGED << done, podIdx, wake, exitVia >>
       ELSE IF signalRaised(done)
       THEN /\ done' = Tail(done)
            /\ AfterScan(OnSignalRaised)
            /\ UNCHANGED << nsIdx, podIdx >>
       ELSE IF ~ProcessName(podList[podIdx])
       THEN /\ podIdx' = podIdx + 1
            /\ UNCHANGED << done, pc, nsIdx, wake, exitVia >>
       ELSE /\ pc' = "get"
            /\ UNCHANGED << done, nsIdx, podIdx, wake, exitVia >>
    /\ UNCHANGED << cli, now, cluster, sigs, handlerPc, nsList,
                    podList, pod, nowLocal, calls, logs, cycle, exitCode >>

\* processPod returns (its locals go out of scope): the pod loop moves on.
NextPod ==
    /\ podIdx' = podIdx + 1
    /\ pc' = "podLoop"
    /\ pod' = NoPod
    /\ nowLocal' = 0

\* The log entries processPod writes for a fetched pod before any call.
EvalLogs(p, t) ==
    LET e == Evaluate(p, t)
        over == Log("warn", "exceeds grace period", p.ns, p.name)
    IN  IF e = "static"
        THEN << Log("warn", "Cannot terminate static pod", p.ns, p.name) >>
        ELSE IF e = "dryRun"
        THEN << over, Log("warn", "would be force deleted", p.ns, p.name) >>
        ELSE IF e = "proceed" /\ FinalizerStep(p) = "blocked"
        THEN << over, Log("warn", "Cannot delete as pod has finalizers", p.ns, p.name) >>
        ELSE IF e = "proceed" THEN << over >>
        ELSE << >>

\* Where processPod goes for a fetched pod: to the finalizer update, to the
\* delete, or back to the pod loop.
EvalTarget(p, t) ==
    IF Evaluate(p, t) # "proceed" THEN "podLoop"
    ELSE IF FinalizerStep(p) = "update" THEN "update"
    ELSE IF FinalizerStep(p) = "none" THEN "delete"
    ELSE "podLoop"

\* processPod: Pods(namespace).Get, then the evaluation of the snapshot.
ProcessPodGet ==
    /\ pc = "get"
    /\ LET ns == nsList[nsIdx]
           name == podList[podIdx]
           i == SlotOf(ns, name)
       IN \E res \in GetResults(i) :
            /\ calls' = << Call("get", ns, name, <<>>, res,
                                 IF res = "ok" THEN Snapshot(i) ELSE NoPod) >>
            /\ IF res = "ok"
               THEN /\ logs' = EvalLogs(Snapshot(i), now)
                    /\ IF EvalTarget(Snapshot(i), now) = "podLoop"
                       THEN NextPod
                       ELSE /\ pod' = Snapshot(i)
                            /\ nowLocal' = now
                            /\ pc' = EvalTarget(Snapshot(i), now)
                            /\ UNCHANGED podIdx
               ELSE /\ logs' = << Log("error", "Cannot get pod details", ns, name) >>
                    /\ NextPod
    /\ UNCHANGED << cli, now, cluster, sigVars, wake, nsList, nsIdx, podList,
                    cycle, exitVia, exitCode >>

\* Mutant of AfterUpdate: removeFinalizers' result is ignored.
AfterUpdateAlwaysDelete(res) == "delete"

\* Mutant of AfterUpdate: a pending signal makes processPod return early.
AfterUpdateUnlessSignalled(res) ==
    IF res = "ok" /\ ~signalRaised(done) THEN "delete" ELSE "podLoop"

\* processPod after removeFinalizers' Update returned res: on to deletePod
\* when removeFinalizers reports true, else return.
AfterUpdate(res) == IF res = "ok" THEN "delete" ELSE "podLoop"

\* removeFinalizers from pod.Finalizers = []string{} on: Pods().Update with
\* the emptied list. An accepted update of a pod under deletion may let the
\* API server finish the deletion at once.
RemoveFinalizersUpdate ==
    /\ pc = "update"
    /\ LET i == SlotOf(pod.ns, pod.name)
       IN \E res \in UpdateResults(i, pod.uid), gone \in BOOLEAN :
            /\ calls' = Append(calls, Call("update", pod.ns, pod.name, <<>>, res, NoPod))
            /\ IF res = "ok"
               THEN /\ cluster' = [cluster EXCEPT ![i] =
                                     IF gone /\ cluster[i].dt # NoTime THEN Absent
                                     ELSE [@ EXCEPT !.fin = <<>>]]
                    /\ logs' = Append(logs, Log("warn", "Removed finalizers",
                                                pod.ns, pod.name))
                    /\ IF AfterUpdate(res) = "delete"
                       THEN /\ pod' = [pod EXCEPT !.fin = <<>>]
                            /\ pc' = "delete"
                            /\ UNCHANGED << podIdx, nowLocal >>
                       ELSE NextPod
               ELSE /\ ~gone
                    /\ logs' = Append(logs, Log("warn", "Cannot remove finalizers",
                                                pod.ns, pod.name))
                    /\ IF AfterUpdate(res) = "delete"
                       THEN /\ pod' = [pod EXCEPT !.fin = <<>>]
                            /\ pc' = "delete"
                            /\ UNCHANGED << podIdx, nowLocal >>
                       ELSE NextPod
                    /\ UNCHANGED cluster
    /\ UNCHANGED << cli, now, sigVars, wake, nsList, nsIdx, podList, cycle,
                    exitVia, exitCode >>

\* Mutant of gracePeriodSeconds: the configured grace period is passed on.
gracePeriodSecondsFromCli == cli.GracePeriod

\* gracePeriodSeconds := int64(0) in deletePod.
gracePeriodSeconds == 0

\* Mutant of DeleteLog: a 404 is reported as a failure.
DeleteLogNotFoundIsError(res) ==
    IF res = "ok" THEN Log("warn", "has been force deleted", pod.ns, pod.name)
    ELSE Log("error", "Cannot force delete", pod.ns, pod.name)

\* The level deletePod logs at for a Delete result: nil and a 404 status
\* are both reported as a force delete, anything else as an error.
DeleteLog(res) ==
    IF res = "ok" THEN Log("warn", "has been force deleted", pod.ns, pod.name)
    ELSE IF res = "notfound" THEN Log("warn", "has been force deleted", pod.ns, pod.name)
    ELSE Log("error", "Cannot force delete", pod.ns, pod.name)

\* deletePod: Pods().Delete by namespace and name with GracePeriodSeconds 0.
\* The API server removes a pod that has no finalizers, and marks one that
\* has them as under deletion.
DeletePod ==
    /\ pc = "delete"
    /\ LET i == SlotOf(pod.ns, pod.name)
       IN \E res \in DeleteResults(i) :
            /\ calls' = Append(calls, Call("delete", pod.ns, pod.name,
                                           gracePeriodSeconds, res, NoPod))
            /\ cluster' = IF res # "ok" THEN cluster
                          ELSE [cluster EXCEPT ![i] =
                                  IF Len(@.fin) = 0 THEN Absent
                                  ELSE [@ EXCEPT !.dt = IF @ = NoTime THEN now ELSE @]]
            /\ logs' = Append(logs, DeleteLog(res))
            /\ NextPod
    /\ UNCHANGED << cli, now, sigVars, wake, nsList, nsIdx, podList, cycle,
                    exitVia, exitCode >>

\* controlLoop has returned: main logs "Shutting down" and returns.
MainReturn ==
    /\ pc = "returned"
    /\ logs' = Append(logs, Log("info", "Shutting down", "", <<>>))
    /\ pc' = "exited"
    /\ exitCode' = ExitOK
    /\ UNCHANGED << cli, now, cluster, sigVars, wake, loopVars, calls, cycle,
                    exitVia >>

(***************************************************************************)
(* The rest of the cluster: someone deletes a running pod, which sets its  *)
(* deletionTimestamp.                                                      *)
(***************************************************************************)
UserDeletesPod ==
    /\ pc # "exited"
    /\ \E i \in Slots :
         /\ Exists(i)
         /\ cluster[i].dt = NoTime
         /\ cluster' = [cluster EXCEPT ![i].dt = now]
    /\ UNCHANGED << cli, now, sigVars, pc, wake, loopVars, calls, logs, cycle,
                    exitVia, exitCode >>

\* A pod of a StatefulSet that is under deletion and has no finalizers goes
\* away, and the StatefulSet creates its successor under the same name: a
\* different instance, with a new UID, that is running.
PodRecreated ==
    /\ pc # "exited"
    /\ \E i \in Slots :
         /\ Exists(i)
         /\ cluster[i].owners = << "StatefulSet" >>
         /\ cluster[i].dt # NoTime
         /\ Len(cluster[i].fin) = 0
         /\ cluster[i].uid < MaxUid
         /\ cluster' = [cluster EXCEPT ![i] =
                           [uid |-> cluster[i].uid + 1, dt |-> NoTime, tgps |-> 0,
                            fin |-> << >>, owners |-> << "StatefulSet" >>]]
    /\ UNCHANGED << cli, now, sigVars, pc, wake, loopVars, calls, logs, cycle,
                    exitVia, exitCode >>

(***************************************************************************)
(* The specification.                                                      *)
(***************************************************************************)
Next ==
    \/ OsSignal
    \/ HandlerRecv
    \/ HandlerSend
    \/ ControlLoopStart
    \/ ListNamespaces
    \/ ListPods
    \/ PodLoop
    \/ ProcessPodGet
    \/ RemoveFinalizersUpdate
    \/ DeletePod
    \/ SleepDone
    \/ SleepTimer
    \/ MainReturn
    \/ Tick
    \/ UserDeletesPod
    \/ PodRecreated

Spec == Init /\ [][Next]_vars

(***************************************************************************)
(* The specification with the scheduling the Go runtime provides: the      *)
(* control loop's goroutine keeps running (every API call returns), the    *)
(* handler goroutine runs when it can, and a select that is entered again  *)
(* and again with done ready takes the done case eventually (select picks  *)
(* among its ready cases at random).                                       *)
(***************************************************************************)
LoopStep ==
    \/ ControlLoopStart
    \/ ListNamespaces
    \/ ListPods
    \/ PodLoop
    \/ ProcessPodGet
    \/ RemoveFinalizersUpdate
    \/ DeletePod
    \/ MainReturn

\* Runs without a pod filter or dry run, over three of the initial clusters.
LiveInit ==
    /\ Init
    /\ ~cli.DryRun /\ ~cli.NoRemoveFinalizers /\ cli.GracePeriod = 0
    /\ cli.Pods = <<>>
    /\ cluster \in { <<Static, Stuck, Absent>>, <<Absent, StuckNoFin, Running>>,
                      <<StuckSts, Absent, Absent>> }

LiveSpec ==
    /\ LiveInit
    /\ [][Next]_vars
    /\ WF_vars(LoopStep)
    /\ WF_vars(HandlerRecv)
    /\ WF_vars(HandlerSend)
    /\ SF_vars(SleepDone)

(***************************************************************************)
(* Vocabulary of the properties.                                           *)
(***************************************************************************)
\* The step issues an API call of this kind within a processPod invocation.
Issues(op) == Len(calls') = Len(calls) + 1 /\ calls'[Len(calls')].op = op

\* The call the step issues.
Issued == calls'[Len(calls')]

\* The step is processPod's Get returning a pod; Fetched is that pod.
GetOkStep == pc = "get" /\ pc' # "get" /\ calls'[1].res = "ok"
Fetched == calls'[1].ret

HasNodeOwner(p) == \E k \in DOMAIN p.owners : p.owners[k] = "Node"

\* The pod is past its deadline at time t, by more than nothing.
PastDeadline(p, t) == p.dt # NoTime /\ t - p.dt > p.tgps + cli.GracePeriod

\* The three conditions of eligibility for forced removal.
Qualifying(p, t) == PastDeadline(p, t) /\ ~HasNodeOwner(p)

Mutating == {"update", "delete"}

(***************************************************************************)
(* Properties.                                                             *)
(***************************************************************************)
\* An update or delete is issued only for the snapshot fetched by the same
\* processPod invocation, and only when that snapshot qualified at the time
\* processPod read the clock.
OnlyQualifyingActedOn ==
    (Issues("update") \/ Issues("delete")) =>
        /\ calls[1].op = "get" /\ calls[1].res = "ok"
        /\ Issued.ns = calls[1].ns /\ Issued.name = calls[1].name
        /\ Qualifying(calls[1].ret, nowLocal)
        /\ nowLocal <= now

\* C1 as stated: processPod issues an update or delete call only for a
\* fetched snapshot that has a deletionTimestamp, no owner of kind Node and
\* now - deletionTimestamp > terminationGracePeriodSeconds + gracePeriod;
\* and with dryRun off every such pod is acted on.
C1_AsStated ==
    [][ /\ OnlyQualifyingActedOn
        /\ (GetOkStep /\ Qualifying(Fetched, now) /\ ~cli.DryRun)
              => pc' \in Mutating ]_vars

\* C1 (amended): as C1, except that with dryRun off a qualifying pod is
\* acted on unless removeFinalizers is disabled and its snapshot has
\* finalizers; it is then left alone. A pod with finalizers gets the update,
\* one without gets the delete.
C1_Eligibility ==
    [][ /\ OnlyQualifyingActedOn
        /\ (GetOkStep /\ Qualifying(Fetched, now) /\ ~cli.DryRun)
              => pc' = IF Len(Fetched.fin) = 0 THEN "delete"
                       ELSE IF cli.NoRemoveFinalizers THEN "podLoop"
                       ELSE "update" ]_vars

\* A qualifying pod has had its finalizers cleared and has been deleted.
C1_Witness ==
    /\ Len(calls) = 3
    /\ calls[2].op = "update" /\ calls[2].res = "ok"
    /\ calls[3].op = "delete" /\ calls[3].res = "ok"

\* C2: a pod with an owner reference of kind Node never receives an update
\* or a delete call, however long ago its deletionTimestamp was set, and
\* each evaluation that finds it terminating logs a warning and returns.
C2_StaticNeverTouched ==
    [][ /\ (Issues("update") \/ Issues("delete")) =>
              LET i == SlotOf(Issued.ns, Issued.name)
              IN  ~(Exists(i) /\ HasNodeOwner(cluster[i]))
        /\ (GetOkStep /\ Fetched.dt # NoTime /\ HasNodeOwner(Fetched)) =>
              /\ logs' = << Log("warn", "Cannot terminate static pod",
                                Fetched.ns, Fetched.name) >>
              /\ pc' = "podLoop"
              /\ cluster' = cluster ]_vars

\* A static pod long past its deadline draws the warning in a second scan.
C2_Witness ==
    /\ cycle >= 2
    /\ Len(calls) = 1 /\ calls[1].op = "get" /\ calls[1].res = "ok"
    /\ HasNodeOwner(calls[1].ret)
    /\ PastDeadline(calls[1].ret, now - 1)
    /\ Len(logs) = 1 /\ logs[1].msg = "Cannot terminate static pod"

\* C3: with dryRun set, no update and no delete call is ever issued: every
\* call is a list or a get.
C3_DryRunReadOnly ==
    cli.DryRun =>
        /\ pc \notin Mutating
        /\ \A k \in DOMAIN calls :
             calls[k].op \in {"listNamespaces", "listPods", "get"}

\* Under dryRun a qualifying pod was found and only reported.
C3_Witness ==
    /\ cli.DryRun
    /\ Len(calls) = 1 /\ calls[1].op = "get" /\ calls[1].res = "ok"
    /\ Qualifying(calls[1].ret, now)
    /\ \E k \in DOMAIN logs : logs[k].msg = "would be force deleted"

\* The pod processPod fetched in the current invocation had finalizers.
FetchedWithFinalizers ==
    /\ Len(calls) > 0
    /\ calls[1].op = "get" /\ calls[1].res = "ok"
    /\ Len(calls[1].ret.fin) > 0

\* Among the first k calls of the invocation there is an update of this pod
\* that submits an empty finalizer list.
UpdateAmong(k, ns, name) ==
    \E j \in 1..k :
        /\ calls[j].op = "update" /\ calls[j].arg = <<>>
        /\ calls[j].ns = ns /\ calls[j].name = name

\* Call k is preceded by such an update of the pod it targets.
UpdateBefore(k) == UpdateAmong(k - 1, calls[k].ns, calls[k].name)

\* C4 as stated: with dryRun off and removeFinalizers on, an update clearing
\* the pod's finalizers is issued before any delete call for the pod.
C4_AsStated ==
    (~cli.DryRun /\ ~cli.NoRemoveFinalizers) =>
        \A k \in DOMAIN calls : calls[k].op = "delete" => UpdateBefore(k)

\* C4 (amended): the same for a qualifying pod whose fetched snapshot has
\* finalizers; a pod fetched without finalizers is deleted with no update.
C4_UpdateBeforeDelete ==
    (~cli.DryRun /\ ~cli.NoRemoveFinalizers) =>
        /\ \A k \in DOMAIN calls :
             calls[k].op = "delete" =>
                IF FetchedWithFinalizers THEN UpdateBefore(k)
                ELSE \A j \in DOMAIN calls : calls[j].op # "update"
        /\ (pc = "delete" /\ FetchedWithFinalizers) =>
              UpdateAmong(Len(calls), pod.ns, pod.name)

\* A pod fetched with finalizers has been updated and then deleted.
C4_Witness ==
    /\ ~cli.NoRemoveFinalizers
    /\ FetchedWithFinalizers
    /\ Len(calls) = 3 /\ calls[2].op = "update" /\ calls[3].op = "delete"

\* C5: with removeFinalizers disabled, a pod whose fetched snapshot has
\* finalizers receives neither an update nor a delete call, in any scan.
C5_FinalizersRespected ==
    (cli.NoRemoveFinalizers /\ FetchedWithFinalizers) =>
        /\ Len(calls) = 1
        /\ pc \notin Mutating

\* In a second scan, a qualifying pod with finalizers is again left alone.
C5_Witness ==
    /\ cli.NoRemoveFinalizers
    /\ cycle >= 2
    /\ FetchedWithFinalizers
    /\ Qualifying(calls[1].ret, now)
    /\ \E k \in DOMAIN logs : logs[k].msg = "Cannot delete as pod has finalizers"

\* The fetched pod is under deletion and still within its window at t.
WithinWindow(p, t) == p.dt # NoTime /\ t - p.dt <= p.tgps + cli.GracePeriod

\* C6: while now - deletionTimestamp <= terminationGracePeriodSeconds +
\* gracePeriod, every evaluation of the pod, in every scan, is a no-op; an
\* update or delete call for a pod is issued only when the clock is strictly
\* past the pod's deadline.
C6_NoActionBeforeDeadline ==
    [][ /\ (GetOkStep /\ WithinWindow(Fetched, now)) =>
              /\ pc' = "podLoop"
              /\ Len(calls') = 1
              /\ cluster' = cluster
        /\ (Issues("update") \/ Issues("delete")) =>
              /\ calls[1].ret.dt # NoTime
              /\ now > calls[1].ret.dt + calls[1].ret.tgps + cli.GracePeriod ]_vars

\* A second scan evaluates a pod that is still within its window.
C6_Witness ==
    /\ cycle >= 2
    /\ pc = "podLoop"
    /\ Len(calls) = 1 /\ calls[1].op = "get" /\ calls[1].res = "ok"
    /\ ~HasNodeOwner(calls[1].ret)
    /\ WithinWindow(calls[1].ret, now)

\* C7: once processPod has started for a pod, the signal is not looked at
\* until processPod has returned: the loop neither receives from done nor
\* returns in between, a successful finalizer update is always followed by
\* the delete call, and the delete call is issued whatever done holds.
C7_CooperativeCancellation ==
    [][ /\ pc \in {"get", "update", "delete"} =>
              /\ pc' \in {"get", "update", "delete", "podLoop"}
              /\ Len(done') >= Len(done)
              /\ exitVia' = exitVia
        /\ (Issues("update") /\ Issued.res = "ok") => pc' = "delete"
        /\ (pc = "delete" /\ pc' # "delete") => Issues("delete") ]_vars

\* The signal is published between a successful update and the delete.
C7_Witness ==
    /\ pc = "delete"
    /\ signalRaised(done)
    /\ Len(calls) = 2 /\ calls[2].op = "update" /\ calls[2].res = "ok"

\* C8: when done holds the signal while controlLoop is in the inter-scan
\* sleep and its timer has not fired, no time passes before sleep returns
\* false, and controlLoop returns: no call is issued and no scan starts,
\* then or later.
C8_SleepInterrupted ==
    [][ /\ (pc = "sleep" /\ Len(done) > 0 /\ now < wake) =>
              /\ now' = now
              /\ calls' = calls
              /\ pc' \in {"sleep", "returned"}
              /\ pc' = "returned" => exitVia' = "sleep"
        /\ pc \in {"returned", "exited"} =>
              /\ pc' \in {"returned", "exited"}
              /\ calls' = calls /\ cycle' = cycle ]_vars

\* The process has exited from an inter-scan sleep whose timer had not fired.
C8_Witness == pc = "exited" /\ exitVia = "sleep" /\ now < wake

\* C10: controlLoop returns only after the signal was published on done and
\* received by the loop; no API result and no pod state makes it return.
C10_OnlySignalEndsLoop ==
    pc \in {"returned", "exited"} =>
        /\ handlerPc = "exit"
        /\ Len(done) = 0
        /\ exitVia \in {"startupDelay", "scan", "sleep"}

\* With no signal delivered, a second scan whose namespace listing failed
\* has left the loop sleeping towards the next scan.
C10_Witness ==
    /\ cycle >= 2
    /\ pc = "sleep"
    /\ handlerPc = "recv" /\ Len(sigs) = 0
    /\ calls = << Call("listNamespaces", "", <<>>, <<>>, "error", NoPod) >>

\* C9: under fair scheduling, and with every API call returning, a
\* delivered SIGINT or SIGTERM leads to controlLoop returning and main
\* ending with exit status 0, whatever the loop was doing.
C9_SignalLeadsToExit ==
    (Len(sigs) > 0) ~> (pc = "exited" /\ exitCode = ExitOK)

\* The process has exited with status 0 after a signal cut a scan short.
C9_Witness ==
    /\ pc = "exited" /\ exitCode = ExitOK
    /\ handlerPc = "exit"
    /\ exitVia = "scan"

\* C11: when a startup delay is configured and the signal is published on
\* done before the delay's timer fires, no time passes before sleep returns
\* false and controlLoop returns: no scan has started and no API call has
\* been issued, then or later. With a startup delay of 0 controlLoop goes to
\* its first scan without sleeping.
C11_StartupDelayInterruptible ==
    [][ /\ (pc = "startupDelay" /\ Len(done) > 0 /\ now < wake) =>
              /\ now' = now
              /\ calls' = calls /\ cycle' = cycle
              /\ pc' \in {"startupDelay", "returned"}
              /\ pc' = "returned" => exitVia' = "startupDelay"
        /\ exitVia' = "startupDelay" =>
              /\ pc' \in {"returned", "exited"}
              /\ cycle' = 0 /\ calls' = << >>
        /\ (pc = "start" /\ pc' # "start") =>
              /\ pc' = IF cli.StartupDelay > 0 THEN "startupDelay" ELSE "scan"
              /\ cli.StartupDelay > 0 => wake' = now + cli.StartupDelay
              /\ calls' = << >> ]_vars

\* The process has exited from a startup delay whose timer had not fired.
C11_Witness ==
    /\ pc = "exited" /\ exitVia = "startupDelay"
    /\ cli.StartupDelay > 0 /\ now < wake
    /\ cycle = 0 /\ calls = << >>

\* C12 as stated: once raised, the signal is never reset.
C12_AsStated == [][ Len(done) > 0 => Len(done') > 0 ]_vars

\* C12 (amended): the signal is raised at most once, by signalHandler, which
\* then ends; it stays raised until the control loop observes it; every
\* observation made while it is raised (signalRaised at the head of a pod
\* iteration, sleep's select before its timer fires) sees it; the
\* observation that sees it takes it off done, and the control loop returns
\* without observing again.
C12_RaisedOnceObservedOnce ==
    [][ /\ Len(done') > Len(done) =>
              /\ handlerPc = "send" /\ handlerPc' = "exit"
              /\ done = << >> /\ done' = << TRUE >>
        /\ handlerPc = "exit" => handlerPc' = "exit"
        /\ Len(done') < Len(done) =>
              /\ pc \in {"podLoop", "startupDelay", "sleep"}
              /\ pc' = "returned"
        /\ (pc = "podLoop" /\ podIdx <= Len(podList) /\ Len(done) > 0
               /\ pc' # pc) => pc' = "returned" /\ done' = << >>
        /\ (pc \in {"startupDelay", "sleep"} /\ Len(done) > 0 /\ now < wake
               /\ pc' # pc) => pc' = "returned" /\ done' = << >>
        /\ pc \in {"returned", "exited"} =>
              /\ done' = done
              /\ pc' \in {"returned", "exited"} ]_vars

\* The pod loop has observed the signal and returned; a further OS signal
\* waits on sigs, with no handler left to raise anything.
C12_Witness ==
    /\ pc = "returned" /\ exitVia = "scan"
    /\ done = << >> /\ handlerPc = "exit"
    /\ Len(sigs) > 0

\* The namespace is one the command line selects.
NamespaceSelected(ns) ==
    Len(cli.Namespaces) = 0 \/ \E j \in DOMAIN cli.Namespaces : cli.Namespaces[j] = ns

\* The step is one turn of the namespace loop, for a listed namespace.
NamespaceTurn ==
    /\ pc = "nsLoop" /\ nsIdx <= Len(nsList)
    /\ << pc, nsIdx >>' # << pc, nsIdx >>

\* C13: no list-pods, get, update or delete call is ever issued for a
\* namespace outside a non-empty namespaces list: such a namespace is passed
\* over without a call. A namespace in the list, and every listed namespace
\* when the list is empty, has its pods listed.
C13_NamespaceFilter ==
    [][ /\ \A k \in DOMAIN calls' :
              calls'[k].op \in {"listPods", "get", "update", "delete"} =>
                 NamespaceSelected(calls'[k].ns)
        /\ NamespaceTurn =>
              IF NamespaceSelected(nsList[nsIdx])
              THEN /\ Len(calls') = 1
                   /\ calls'[1].op = "listPods" /\ calls'[1].ns = nsList[nsIdx]
              ELSE /\ calls' = calls
                   /\ pc' = "nsLoop" /\ nsIdx' = nsIdx + 1 ]_vars

\* With namespaces = {a}, the scan has gone past namespace b, which holds a
\* pod under deletion, after working in namespace a only.
C13_Witness ==
    /\ cli.Namespaces = << "a" >>
    /\ pc = "nsLoop" /\ nsIdx = 3
    /\ Exists(3) /\ PodIds[3].ns = "b" /\ cluster[3].dt # NoTime
    /\ Len(calls) > 0 /\ calls[1].ns = "a"

\* name starts with prefix, character for character.
StartsWith(name, prefix) ==
    Len(prefix) <= Len(name) /\ SubSeq(name, 1, Len(prefix)) = prefix

\* The pod name is one the command line selects.
NameSelected(name) ==
    Len(cli.Pods) = 0 \/ \E j \in DOMAIN cli.Pods : StartsWith(name, cli.Pods[j])

\* C14: a listed pod that the pod loop reaches with no signal pending is
\* passed to processPod (a get is issued for it) if and only if no prefixes
\* are configured or its name starts, case-sensitively, with one of them;
\* otherwise the loop passes over it with no call.
C14_PrefixFilter ==
    [][ /\ (pc = "podLoop" /\ podIdx <= Len(podList) /\ Len(done) = 0
               /\ << pc, podIdx >>' # << pc, podIdx >>) =>
              IF NameSelected(podList[podIdx])
              THEN pc' = "get" /\ podIdx' = podIdx
              ELSE pc' = "podLoop" /\ podIdx' = podIdx + 1 /\ calls' = calls
        /\ (pc = "get" /\ pc' # "get") =>
              /\ calls'[1].op = "get"
              /\ calls'[1].ns = nsList[nsIdx] /\ calls'[1].name = podList[podIdx]
        /\ \A k \in DOMAIN calls' :
              calls'[k].op = "get" => NameSelected(calls'[k].name) ]_vars

\* With prefixes "Bar" and "foo-", foo-1 has been fetched and bar-1, which
\* matches "Bar" only if case is ignored, has been passed over.
C14_Witness ==
    /\ Len(cli.Pods) > 0
    /\ pc = "podLoop" /\ podList = << Foo1, Bar1 >> /\ podIdx = 3
    /\ Len(calls) > 0 /\ calls[1].op = "get" /\ calls[1].name = Foo1

\* C15: every delete call carries a grace period of 0 seconds.
C15_DeleteGraceZero ==
    \A k \in DOMAIN calls : calls[k].op = "delete" => calls[k].arg = 0

\* With a configured grace period of 1, a delete has been issued (and has
\* failed) carrying 0.
C15_Witness ==
    /\ cli.GracePeriod = 1
    /\ Len(calls) > 1
    /\ calls[Len(calls)].op = "delete" /\ calls[Len(calls)].res = "error"
    /\ calls[Len(calls)].arg = 0

\* C16: a delete that returns not-found is logged exactly as a successful
\* one, with the warning "has been force deleted", and the invocation has
\* logged nothing at error level; any other failure is logged at error
\* level and leaves the cluster as it was. Either way the delete is the
\* invocation's only one and the pod loop moves on to the next pod; a
\* listing names no pod twice, so the pod is not visited again in the scan.
C16_DeleteOutcome ==
    [][ /\ Issues("delete") =>
              LET entry == logs'[Len(logs')]
              IN  /\ Len(logs') = Len(logs) + 1
                  /\ Issued.res \in {"ok", "notfound"} =>
                        /\ entry = [level |-> "warn", msg |-> "has been force deleted",
                                    ns |-> Issued.ns, name |-> Issued.name]
                        /\ \A k \in DOMAIN logs' : logs'[k].level # "error"
                  /\ Issued.res \notin {"ok", "notfound"} =>
                        /\ entry = [level |-> "error", msg |-> "Cannot force delete",
                                    ns |-> Issued.ns, name |-> Issued.name]
                        /\ cluster' = cluster
                  /\ \A k \in DOMAIN calls : calls[k].op # "delete"
                  /\ pc' = "podLoop" /\ podIdx' = podIdx + 1
        /\ \A i, j \in DOMAIN podList' :
              i # j => podList'[i] # podList'[j] ]_vars

\* A delete has returned not-found (the pod went away when its finalizers
\* were cleared) and has been logged as a force delete.
C16_Witness ==
    /\ Len(calls) = 3
    /\ calls[3].op = "delete" /\ calls[3].res = "notfound"
    /\ logs[Len(logs)].level = "warn"
    /\ logs[Len(logs)].msg = "has been force deleted"

\* C17: when the finalizer update returns an error, processPod returns with
\* a warning, without a delete, holding nothing about the pod and leaving
\* the cluster as it was. A delete is issued only when removeFinalizers
\* reported success (no update was needed, or the update succeeded), and an
\* update only right after the same invocation's successful get of the pod.
\* Every listing of a namespace names every pod in it, so the pod is listed
\* again by the next scan.
C17_DeleteOnlyAfterRemoval ==
    [][ /\ (Issues("update") /\ Issued.res # "ok") =>
              /\ pc' = "podLoop" /\ podIdx' = podIdx + 1
              /\ pod' = NoPod
              /\ cluster' = cluster
              /\ logs'[Len(logs')].msg = "Cannot remove finalizers"
        /\ Issues("delete") =>
              \A k \in DOMAIN calls : calls[k].op = "update" => calls[k].res = "ok"
        /\ (pc # "delete" /\ pc' = "delete") =>
              \/ Len(calls') = 1 /\ calls'[1].res = "ok" /\ Len(calls'[1].ret.fin) = 0
              \/ Len(calls') = 2 /\ calls'[2].op = "update" /\ calls'[2].res = "ok"
        /\ Issues("update") =>
              /\ Len(calls) = 1
              /\ calls[1].op = "get" /\ calls[1].res = "ok"
              /\ calls[1].ns = Issued.ns /\ calls[1].name = Issued.name
        /\ (pc = "nsLoop" /\ pc' = "podLoop") =>
              \A i \in Slots :
                 (Exists(i) /\ PodIds[i].ns = nsList[nsIdx]) =>
                    \E k \in DOMAIN podList' : podList'[k] = PodIds[i].name ]_vars

\* In a second scan, the finalizer update of a freshly fetched pod has met
\* a conflict: processPod has returned without a delete and the pod still
\* has its finalizers.
C17_Witness ==
    /\ cycle >= 2
    /\ pc = "podLoop"
    /\ Len(calls) = 2
    /\ calls[1].op = "get" /\ calls[1].res = "ok"
    /\ calls[2].op = "update" /\ calls[2].res = "conflict"
    /\ Len(cluster[SlotOf(calls[2].ns, calls[2].name)].fin) > 0

\* C18 as stated: once the signal has been published, the scan begins no pod
\* evaluation, lists no further namespace and does not go on to the
\* inter-scan sleep.
C18_AsStated ==
    [][ (Len(done) > 0 /\ pc \in {"nsLoop", "podLoop"}) =>
            /\ pc' \notin {"get", "sleep"}
            /\ calls' = calls ]_vars

\* C18 (amended): the signal is polled at the head of each pod iteration
\* and nowhere else in the scan. No pod evaluation begins while the signal
\* is published; at the next pod iteration the scan reaches,
\* processNamespaces returns false and controlLoop returns with no further
\* call and without sleeping. Until then the scan goes on: the end of a pod
\* list and the namespace loop do not look at the signal.
C18_PolledBeforeEachPod ==
    [][ /\ (pc # "get" /\ pc' = "get") => pc = "podLoop" /\ Len(done) = 0
        /\ (pc = "podLoop" /\ podIdx <= Len(podList) /\ Len(done) > 0
               /\ << pc, podIdx >>' # << pc, podIdx >>) =>
              /\ pc' = "returned" /\ exitVia' = "scan"
              /\ calls' = calls /\ wake' = wake
              /\ nsIdx' = nsIdx /\ podIdx' = podIdx
        /\ (pc = "podLoop" /\ podIdx > Len(podList) /\ pc' # pc) =>
              pc' = "nsLoop" /\ done' = done
        /\ (pc = "nsLoop" /\ << pc, nsIdx >>' # << pc, nsIdx >>) =>
              /\ done' = done
              /\ pc' \in {"nsLoop", "podLoop", "sleep"}
        /\ exitVia' = "scan" =>
              /\ pc' \in {"returned", "exited"}
              /\ calls' = calls ]_vars

\* The scan was cut short before the second pod of namespace a; namespace
\* b, which holds a pod, was never listed.
C18_Witness ==
    /\ pc = "returned" /\ exitVia = "scan"
    /\ nsIdx = 1 /\ podIdx = 2 /\ Len(podList) = 2
    /\ Exists(3)
    /\ Len(calls) > 0 /\ calls[1].op = "get" /\ calls[1].ns = "a"

\* C19: a successful finalizer update leaves the pod, if it is still
\* there, without finalizers, and a delete that fails with an error other
\* than not-found leaves the cluster as it was. With removeFinalizers
\* enabled, a qualifying pod that is then fetched without finalizers goes
\* straight to the delete: the delete follows the get with no update.
C19_RetryDeletesDirectly ==
    [][ /\ (Issues("update") /\ Issued.res = "ok") =>
              LET i == SlotOf(Issued.ns, Issued.name)
              IN  cluster'[i].uid = 0 \/ Len(cluster'[i].fin) = 0
        /\ (Issues("delete") /\ Issued.res \notin {"ok", "notfound"}) =>
              cluster' = cluster
        /\ (GetOkStep /\ ~cli.DryRun /\ ~cli.NoRemoveFinalizers
               /\ Qualifying(Fetched, now) /\ Len(Fetched.fin) = 0) =>
              pc' = "delete" /\ Len(calls') = 1
        /\ (~cli.NoRemoveFinalizers /\ Issues("delete")
               /\ Len(calls[1].ret.fin) = 0) =>
              /\ Len(calls) = 1
              /\ Issued.ns = calls[1].ns /\ Issued.name = calls[1].name ]_vars

\* In a later scan, a pod that started with the finalizer "kubernetes" (it
\* alone has a ReplicaSet owner and a grace period of 0) has been fetched
\* without finalizers and deleted with no update: an earlier scan cleared
\* its finalizers and failed to delete it.
C19_Witness ==
    /\ cycle >= 2
    /\ ~cli.NoRemoveFinalizers
    /\ Len(calls) = 2
    /\ calls[1].op = "get" /\ calls[1].res = "ok"
    /\ calls[1].ret.dt # NoTime /\ calls[1].ret.tgps = 0
    /\ calls[1].ret.owners = << "ReplicaSet" >>
    /\ calls[1].ret.fin = << >>
    /\ calls[2].op = "delete" /\ calls[2].res = "ok"

\* C20: for a qualifying pod fetched with an empty finalizer list, with
\* dryRun off and whatever NoRemoveFinalizers is, removeFinalizers issues
\* no update, logs nothing and changes nothing, and the delete is issued
\* next.
C20_EmptyFinalizersDeleted ==
    [][ /\ (GetOkStep /\ ~cli.DryRun /\ Qualifying(Fetched, now)
               /\ Len(Fetched.fin) = 0) =>
              /\ pc' = "delete"
              /\ Len(calls') = 1
              /\ logs' = << Log("warn", "exceeds grace period",
                                Fetched.ns, Fetched.name) >>
              /\ cluster' = cluster
        /\ (pc = "delete" /\ Len(calls[1].ret.fin) = 0 /\ pc' # "delete") =>
              /\ Len(calls') = 2
              /\ calls'[2].op = "delete"
              /\ calls'[2].ns = calls[1].ns /\ calls'[2].name = calls[1].name ]_vars

\* With removeFinalizers disabled, a pod fetched without finalizers has
\* been deleted.
C20_Witness ==
    /\ cli.NoRemoveFinalizers
    /\ Len(calls) = 2
    /\ calls[1].op = "get" /\ calls[1].res = "ok" /\ calls[1].ret.fin = << >>
    /\ calls[2].op = "delete" /\ calls[2].res = "ok"

\* C21: when Namespaces().List fails, the scan consists of that one call:
\* processNamespaces logs the error and reports "continue", controlLoop
\* goes to sleep for cli.Interval, and the sleep, unless the signal ends it,
\* is followed by the next scan once the interval has passed.
C21_ListNamespacesFailureSkipsCycle ==
    [][ /\ (pc = "scan" /\ pc' # "scan" /\ calls'[1].res # "ok") =>
              /\ Len(calls') = 1 /\ calls'[1].op = "listNamespaces"
              /\ logs'[Len(logs')] = [level |-> "error", msg |-> "Cannot list namespaces",
                                      ns |-> "", name |-> << >>]
              /\ pc' = "sleep"
              /\ wake' = now + cli.Interval
              /\ exitVia' = exitVia
        /\ (pc = "sleep" /\ pc' # "sleep") =>
              /\ calls' = calls
              /\ \/ pc' = "scan" /\ now >= wake /\ done' = done
                 \/ pc' = "returned" /\ Len(done) > 0
        /\ (pc = "sleep" /\ now >= wake /\ Len(done) = 0) => now' = now ]_vars

\* The first scan's namespace listing failed; the loop has slept the
\* interval of 1 and stands at the start of its second scan.
C21_Witness ==
    /\ pc = "scan" /\ cycle = 1
    /\ cli.Interval = 1 /\ wake >= 1 /\ now >= wake
    /\ Len(calls) = 1
    /\ calls[1].op = "listNamespaces" /\ calls[1].res = "error"

\* The phase of controlLoop at a program counter.
Phase(at) ==
    IF at = "start" THEN "Idle"
    ELSE IF at = "startupDelay" THEN "StartupDelay"
    ELSE IF at = "sleep" THEN "Sleeping"
    ELSE IF at \in {"returned", "exited"} THEN "Terminated"
    ELSE "Scanning"

\* C23: controlLoop's phases follow Idle, StartupDelay (only with a startup
\* delay configured), Scanning, Sleeping, Scanning, ..., Terminated. A scan
\* starts only from Idle, from the startup delay or from a sleep, never from
\* a scan; a scan that is not cancelled ends in a sleep of cli.Interval, and
\* the sleep gives way to the next scan only when that time has passed.
\* Terminated is never left, and no call is issued in it.
C23_Phases ==
    [][ /\ Phase(pc') # Phase(pc) =>
              << Phase(pc), Phase(pc') >> \in
                 { << "Idle", "StartupDelay" >>, << "Idle", "Scanning" >>,
                   << "StartupDelay", "Scanning" >>, << "StartupDelay", "Terminated" >>,
                   << "Scanning", "Sleeping" >>, << "Scanning", "Terminated" >>,
                   << "Sleeping", "Scanning" >>, << "Sleeping", "Terminated" >> }
        /\ (Phase(pc) = "Idle" /\ Phase(pc') # "Idle") =>
              (Phase(pc') = "StartupDelay" <=> cli.StartupDelay > 0)
        /\ (pc' = "scan" /\ pc # "scan") => pc \in {"start", "startupDelay", "sleep"}
        /\ cycle' # cycle => pc = "scan"
        /\ (Phase(pc) = "Scanning" /\ Phase(pc') = "Sleeping") =>
              wake' = now + cli.Interval
        /\ (Phase(pc) = "Scanning" /\ Phase(pc') = "Terminated") =>
              Len(done) > 0 /\ done' = << >>
        /\ (Phase(pc) = "Sleeping" /\ Phase(pc') = "Scanning") =>
              pc' = "scan" /\ now >= wake
        /\ Phase(pc) = "Sleeping" => wake' = wake
        /\ Phase(pc) = "Terminated" =>
              /\ Phase(pc') = "Terminated"
              /\ calls' = calls /\ cycle' = cycle ]_vars

\* After a startup delay, two scans and the sleep between them, the signal
\* ended the second sleep and the process has exited.
C23_Witness ==
    /\ cli.StartupDelay > 0
    /\ cycle >= 2
    /\ pc = "exited" /\ exitVia = "sleep"

\* C26: a receive from done happens only in signalRaised at the head of a
\* pod iteration or in sleep's select, it empties done, and controlLoop
\* returns in the same step; after the return done is not touched again.
\* When sleep's timer and the signal are ready together, sleep either takes
\* the timer and leaves the signal on done, or takes the signal and
\* controlLoop returns: it never takes the signal and goes on.
C26_ReceiveEndsLoop ==
    [][ /\ done' # done /\ Len(done') <= Len(done) =>
              /\ done' = << >>
              /\ \/ pc = "podLoop" /\ podIdx <= Len(podList) /\ exitVia' = "scan"
                 \/ pc \in {"startupDelay", "sleep"} /\ exitVia' = pc
              /\ pc' = "returned"
              /\ calls' = calls /\ cycle' = cycle
        /\ (pc \in {"startupDelay", "sleep"} /\ Len(done) > 0 /\ now >= wake
               /\ pc' # pc) =>
              \/ pc' = "scan" /\ done' = done
              \/ pc' = "returned" /\ done' = << >>
        /\ pc \in {"returned", "exited"} =>
              /\ pc' \in {"returned", "exited"}
              /\ Len(done') >= Len(done)
              /\ exitVia' = exitVia ]_vars

\* With an interval of 0 the timer of the inter-scan sleep was ready from
\* the start; the signal was ready too and sleep took it: controlLoop has
\* returned.
C26_Witness ==
    /\ pc = "returned" /\ exitVia = "sleep"
    /\ cli.Interval = 0 /\ now >= wake
    /\ done = << >> /\ handlerPc = "exit"

\* C22: when Pods(namespace).List fails, the error is logged and the
\* namespace loop moves on to the next namespace: the scan neither ends nor
\* returns, and no get is issued for the failed namespace. Every selected
\* namespace the loop comes to, whatever happened to the ones before it, has
\* its pods listed, and a successful listing hands every pod of the
\* namespace to the pod loop.
C22_ListPodsFailureSkipsNamespace ==
    [][ /\ (NamespaceTurn /\ Len(calls') = 1 /\ calls' # calls
               /\ calls'[1].res # "ok") =>
              /\ calls'[1].op = "listPods"
              /\ logs' = << [level |-> "error", msg |-> "Cannot list pods",
                             ns |-> nsList[nsIdx], name |-> << >>] >>
              /\ pc' = "nsLoop" /\ nsIdx' = nsIdx + 1
              /\ nsList' = nsList
              /\ wake' = wake /\ exitVia' = exitVia
        /\ (NamespaceTurn /\ NamespaceSelected(nsList[nsIdx])) =>
              /\ Len(calls') = 1
              /\ calls'[1].op = "listPods" /\ calls'[1].ns = nsList[nsIdx]
              /\ calls'[1].res = "ok" =>
                    /\ pc' = "podLoop" /\ podIdx' = 1
                    /\ \A i \in Slots :
                          (Exists(i) /\ PodIds[i].ns = nsList[nsIdx]) =>
                             \E k \in DOMAIN podList' : podList'[k] = PodIds[i].name
        /\ (pc = "nsLoop" /\ pc' \notin {"nsLoop", "podLoop"}) =>
              nsIdx > Len(nsList) /\ pc' = "sleep" ]_vars

\* In the first scan the pods of namespace a were listed and gone through,
\* and then the listing of namespace b failed: the loop has moved past b.
C22_Witness ==
    /\ cycle = 1
    /\ pc = "nsLoop" /\ nsIdx = 3
    /\ Len(calls) = 1
    /\ calls[1].op = "listPods" /\ calls[1].ns = "b" /\ calls[1].res = "error"
    /\ Len(podList) > 0 /\ podIdx = Len(podList) + 1

\* C24: signalHandler sends on done once: done grows only by the handler's
\* send, which finds done empty (it never blocks) and ends the handler for
\* good. A signal delivered after the handler has taken the first one goes
\* into sigs or is dropped: nobody receives it, and neither done, the
\* handler nor the control loop changes.
C24_RaisedAtMostOnce ==
    [][ /\ Len(done') > Len(done) =>
              /\ handlerPc = "send" /\ handlerPc' = "exit"
              /\ done = << >> /\ done' = << TRUE >>
        /\ handlerPc = "send" => Len(done) < DoneCap
        /\ handlerPc \in {"send", "exit"} =>
              /\ handlerPc' \in {"send", "exit"}
              /\ Len(sigs') >= Len(sigs)
              /\ Len(sigs') <= SigsCap
        /\ handlerPc = "exit" => handlerPc' = "exit" /\ Len(done') <= Len(done)
        /\ (handlerPc \in {"send", "exit"} /\ sigs' # sigs) =>
              /\ done' = done /\ handlerPc' = handlerPc
              /\ pc' = pc /\ calls' = calls /\ cluster' = cluster ]_vars

\* The handler has raised the signal and ended; the loop has not looked at
\* it yet, and a second signal sits in sigs.
C24_Witness ==
    /\ handlerPc = "exit"
    /\ done = << TRUE >>
    /\ Len(sigs) = 1
    /\ pc \in {"get", "update", "delete"}

\* The instance in the slot of the pod that the invocation fetched.
TargetSlot == SlotOf(calls[1].ns, calls[1].name)

\* C25: a delete removes only the instance that the invocation fetched and
\* found eligible: when the pod of that name is by then a different
\* instance, the delete call leaves it in place.
C25_DeletesOnlyEvaluatedInstance ==
    [][ (Issues("delete") /\ Exists(TargetSlot)
           /\ cluster[TargetSlot].uid # calls[1].ret.uid) =>
            cluster'[TargetSlot] = cluster[TargetSlot] ]_vars

====
